---------------------------- MODULE Spec2Model ----------------------------
(***************************************************************************)
(* Model of the session synchronization engine of VR_Server:               *)
(*   src/Minimal/ServerGame.cpp   update / receiveFromClients /            *)
(*                                sendActionPackets                        *)
(*   src/Minimal/NetworkData.h    Packet, serialize / deserialize          *)
(*   src/Minimal/main.cpp         the game logic that reads and writes the *)
(*                                public fields of ServerGame              *)
(*                                                                         *)
(* One frame of the host is: button handlers (UpdateButtonX/Y), then       *)
(* renderScene, which calls server->update() and afterwards consumes the   *)
(* other_* fields.  Everything runs on one thread; pc is the position of   *)
(* that thread.  SpecGame follows renderScene block by block, with the     *)
(* boards and modes of the game, for a host whose peer is connected.       *)
(*                                                                         *)
(* A wire record is modelled as PacketSize units, one per field of Packet, *)
(* in declaration order.  The content of network_data is input: the units  *)
(* of a record are drawn when deserialize reads them.  Units past          *)
(* data_length (a trailing partial record) are whatever an earlier receive *)
(* or the uninitialised array left there, and are drawn the same way.      *)
(***************************************************************************)
EXTENDS Integers, Sequences, FiniteSets, TLC

\* ------------------------------------------------------------- bounds
\* most sessions the listener accepts
MaxClients == 2
\* most whole records one receive returns
MaxRecords == 2
\* cells of a fleet: numHits or numDamages at this count ends the game (16
\* in the source, five ships of 5 + 4 + 3 + 2 + 2 cells)
ShipCells == 2

\* ---------------------------------------------------------- constants
INIT_CONNECTION == 0
ACTION_EVENT == 1
\* a packet_type value outside the enum
UNKNOWN_TYPE == ACTION_EVENT + 1

\* sizeof(Packet) in field units: packet_type, attack, damage, done, headPose
PacketSize == 5

\* std::make_pair(-1,-1)
Sentinel == <<-1, -1>>

\* grid cells the model uses (x_cord, y_cord of the 10x10 board)
Cells == {<<3, 4>>, <<0, 9>>}

\* coordinate pairs an inbound record may carry: cells, the sentinel and a
\* pair with only its first component -1
Pairs == Cells \cup {Sentinel, <<-1, 4>>}

\* states of a board cell
EMPTY == 0
MARKED == 1
MISSED == -1
SHOOTED == 2

\* glm::mat4(1.0f) and one other transform
IdentityPose == "I"
Poses == {IdentityPose, "P"}

PacketTypes == {INIT_CONNECTION, ACTION_EVENT, UNKNOWN_TYPE}

\* struct Packet
Packets == [packet_type : PacketTypes, attack : Pairs, damage : Pairs,
            done : BOOLEAN, headPose : Poses]

\* the local `Packet packet` of receiveFromClients before the first
\* deserialize, and outside the function
NoPacket == [packet_type |-> UNKNOWN_TYPE, attack |-> Sentinel,
             damage |-> Sentinel, done |-> FALSE, headPose |-> IdentityPose]

\* Packet::serialize: memcpy of the struct, field after field
serialize(p) == <<p.packet_type, p.attack, p.damage, p.done, p.headPose>>

\* fault: attack and damage are read from each other's place
deserializeSwapped(data) ==
    [packet_type |-> data[1], attack |-> data[3], damage |-> data[2],
     done |-> data[4], headPose |-> data[5]]

\* Packet::deserialize: memcpy into the struct, field after field
deserialize(data) ==
    [packet_type |-> data[1], attack |-> data[2], damage |-> data[3],
     done |-> data[4], headPose |-> data[5]]

\* every PacketSize-unit content of network_data[i .. i+sizeof(Packet))
AllRecords == {<<k, a, d, dn, h>> : k \in PacketTypes, a \in Pairs,
                                    d \in Pairs, dn \in BOOLEAN, h \in Poses}

\* the records the sessions of the full engine send: an Init that carries
\* values, ActionEvents with a cell, the sentinel or a half-sentinel pair in
\* attack and damage, and a record of unknown type
Records == {
    <<INIT_CONNECTION, <<3, 4>>, <<0, 9>>, TRUE, "P">>,
    <<ACTION_EVENT, <<3, 4>>, Sentinel, FALSE, "P">>,
    <<ACTION_EVENT, Sentinel, <<3, 4>>, TRUE, IdentityPose>>,
    <<ACTION_EVENT, <<-1, 4>>, <<-1, 4>>, TRUE, "P">>,
    <<ACTION_EVENT, <<0, 9>>, <<0, 9>>, FALSE, IdentityPose>>,
    <<UNKNOWN_TYPE, <<0, 9>>, <<3, 4>>, TRUE, "P">> }

\* values receiveData returns: an error, nothing, n whole records, or n
\* records of which the last lacks its final unit (a trailing partial record)
Lengths == {-1, 0} \cup
           {n * PacketSize - d : n \in 1 .. MaxRecords, d \in {0, 1}}

VARIABLES
    client_id,       \* ServerGame::client_id
    sessions,        \* network->sessions (the keys of the map)
    my_attack, my_damage, my_done, my_headPose,
    other_attack, other_damage, other_done, other_headPose,
    game_mode,       \* ServerGame::game_mode (the spec's turnFlag)
    playerMode,      \* main.cpp playerMode
    pc,              \* position of the frame thread
    iter,            \* iterator of the session loop
    data_length, i,  \* locals of receiveFromClients
    packet,          \* local Packet of receiveFromClients
    outbox,          \* per session: the byte records sent to it in this tick
    nProc,           \* Init/ActionEvent records processed in this tick
    initOnly,        \* no ActionEvent record was processed in this tick
    nSent,           \* sendActionPackets calls in this tick
    seenAttack,      \* attack of the last merged record with attack # (-1,-1)
    seenDamage,      \* damage of the last merged record with damage # (-1,-1)
    seenAttackFirst, \* attack of the last merged record with attack.first # -1
    seenDamageFirst, \* damage of the last merged record with damage.first # -1
    polled,          \* sessions receiveData was called for in this tick, in order
    decodedAt,       \* offsets deserialize read at since the last receiveData
    attackUnsent,    \* my_attack was written after the last broadcast
    damageUnsent,    \* my_damage was written after the last broadcast
    lastTo,          \* sessions the most recent broadcast was handed to
    acceptedNow,     \* sessions the accept poll of this tick registered
    gameMode,        \* ExampleApp::gameMode: PREPARE, ON or END
    selectingMode,   \* ExampleApp::selectingMode: SELECTING or DONE
    myBoard,         \* scene->myBoard on the cells of Cells
    rivalBoard,      \* scene->rivalBoard on the cells of Cells
    numHits,         \* scene->numHits
    numDamages,      \* scene->numDamages
    stage,           \* how far renderScene has come in the frame
    attackFresh,     \* the tick of this frame merged an attack
    turnOwed         \* the player fired and no attack was merged since

vars == <<client_id, sessions, my_attack, my_damage, my_done, my_headPose,
          other_attack, other_damage, other_done, other_headPose, game_mode,
          playerMode, pc, iter, data_length, i, packet, outbox, nProc,
          initOnly, nSent, seenAttack, seenDamage, seenAttackFirst,
          seenDamageFirst, polled, decodedAt, attackUnsent, damageUnsent,
          lastTo, acceptedNow, gameMode, selectingMode, myBoard, rivalBoard,
          numHits, numDamages, stage, attackFresh, turnOwed>>

gameVars == <<gameMode, selectingMode, myBoard, rivalBoard, numHits,
              numDamages, stage, attackFresh, turnOwed>>
myVars == <<my_attack, my_damage, my_done, my_headPose>>
otherVars == <<other_attack, other_damage, other_done, other_headPose>>
netVars == <<client_id, sessions>>
walkVars == <<iter, data_length, i, packet>>
histVars == <<outbox, nProc, initOnly, nSent>>
seenVars == <<seenAttack, seenDamage, seenAttackFirst, seenDamageFirst>>
unsentVars == <<attackUnsent, damageUnsent>>

Min(S) == CHOOSE x \in S : \A y \in S : x <= y

Last(q) == q[Len(q)]

\* main.cpp initGl and the constructor of Scene: the game of the host
\* before its first frame
InitScene ==
    /\ gameMode = "PREPARE"
    /\ selectingMode = "SELECTING"
    /\ myBoard = [c \in Cells |-> EMPTY]
    /\ rivalBoard = [c \in Cells |-> EMPTY]
    /\ numHits = 0 /\ numDamages = 0
    /\ stage = "head"
    /\ attackFresh = FALSE /\ turnOwed = FALSE

\* ServerGame::ServerGame and the member initialisers of ServerGame.h,
\* main.cpp initGl
Init ==
    /\ client_id = 0
    /\ sessions = {}
    /\ my_attack = Sentinel /\ other_attack = Sentinel
    /\ my_damage = Sentinel /\ other_damage = Sentinel
    /\ my_headPose = IdentityPose /\ other_headPose = IdentityPose
    /\ game_mode = TRUE
    /\ my_done = FALSE /\ other_done = FALSE
    /\ playerMode = "MY"
    /\ pc = "idle"
    /\ iter = 0 /\ data_length = 0 /\ i = 0
    /\ packet = NoPacket
    /\ outbox = <<>>
    /\ nProc = 0 /\ initOnly = TRUE /\ nSent = 0
    /\ seenAttack = Sentinel /\ seenAttackFirst = Sentinel
    /\ seenDamage = Sentinel /\ seenDamageFirst = Sentinel
    /\ polled = <<>> /\ decodedAt = <<>>
    /\ attackUnsent = FALSE /\ damageUnsent = FALSE
    /\ lastTo = {}
    /\ acceptedNow = {}
    /\ InitScene

\* ------------------------------------------------------- session table
\* ServerNetwork::acceptNewClient(id): a pending connection is registered
\* under id and true is returned; otherwise nothing changes
AcceptNewClient(table, id, pending) ==
    IF pending THEN table \cup {id} ELSE table

\* ServerNetwork::sendToAll(bytes, size): the same bytes to every session
\* registered at the call
SendToAll(box, table, bytes) ==
    [s \in table |-> Append(box[s], bytes)]

\* fault: the counter is not advanced after an accept
NextClientIdStuck(id, accepted) == id

\* fault: the counter is advanced whether or not a client was accepted
NextClientIdAlways(id, accepted) == id + 1

\* ServerGame::update: client_id++ inside if (acceptNewClient(client_id))
NextClientId(id, accepted) == IF accepted THEN id + 1 ELSE id

\* fault: the session loop runs on the table as it was before the accept
PolledTableBefore(before, after) == before

\* ServerGame::update: receiveFromClients is called after the accept poll
\* and iterates network->sessions as the accept left it
PolledTable(before, after) == after

\* fault: a session whose receive fails is erased from the table
SessionsAfterReceiveErased(table, id, len) ==
    IF len < 0 THEN table \ {id} ELSE table

\* the session table after receiveData returned len for session id:
\* receiveFromClients erases nothing, whatever the result
SessionsAfterReceive(table, id, len) == table

\* fault: the index is not advanced
NextIndexStuck(idx) == idx

\* i += sizeof(Packet)
NextIndex(idx) == idx + PacketSize

\* fault: deserialize reads the start of network_data on every pass
ReadOffsetZero(idx) == 0

\* packet.deserialize(&(network_data[i])): the offset the record is read at
ReadOffset(idx) == idx

\* fault: the pair is not reset after the send
ResetOneShotKeeps(cur) == cur

\* fault: the pair is overwritten with the attack of the record answered
ResetOneShotEcho(cur) == packet.attack

\* fault: only the first component of the pair is reset
ResetOneShotFirst(cur) == <<-1, cur[2]>>

\* sendActionPackets: my_attack / my_damage .first = -1; .second = -1
ResetOneShot(cur) == Sentinel

\* --------------------------------------------------------------- merge
\* fault: the Init case lacks its break and falls through into the merge
MergesAnyKnown(p) == p.packet_type \in {INIT_CONNECTION, ACTION_EVENT}

\* the case of the switch that merges the record into the incoming fields
Merges(p) == p.packet_type = ACTION_EVENT

\* fault: the default case falls through to sendActionPackets
CallsSendAlways(p) == TRUE

\* fault: the Init case does not answer with a broadcast
CallsSendActionOnly(p) == p.packet_type = ACTION_EVENT

\* the cases of the switch that call sendActionPackets
CallsSend(p) == p.packet_type \in {INIT_CONNECTION, ACTION_EVENT}

\* fault: the attack branch copies the damage field
MergeAttackFromDamage(p, cur) == IF p.attack[1] # -1 THEN p.damage ELSE cur

\* fault: an attack is taken only while none is pending (first one wins)
MergeAttackFirstWins(p, cur) ==
    IF p.attack[1] # -1 /\ cur[1] = -1 THEN p.attack ELSE cur

\* case ACTION_EVENT: if (packet.attack.first != -1) other_attack = ...
MergeAttack(p, cur) == IF p.attack[1] # -1 THEN p.attack ELSE cur

\* fault: the attack branch clears the flag instead of setting it
MergeGameModeClears(p, cur) == IF p.attack[1] # -1 THEN FALSE ELSE cur

\* fault: game_mode = true outside the attack test
MergeGameModeAlways(p, cur) == TRUE

\* case ACTION_EVENT: if (packet.attack.first != -1) game_mode = true
MergeGameMode(p, cur) == IF p.attack[1] # -1 THEN TRUE ELSE cur

\* fault: the damage branch tests the attack field
MergeDamageOnAttack(p, cur) == IF p.attack[1] # -1 THEN p.damage ELSE cur

\* case ACTION_EVENT: if (packet.damage.first != -1) other_damage = ...
MergeDamage(p, cur) == IF p.damage[1] # -1 THEN p.damage ELSE cur

\* fault: other_done is only ever raised, never lowered
MergeDoneSticky(p, cur) == cur \/ p.done

\* case ACTION_EVENT: other_done = packet.done
MergeDone(p, cur) == p.done

\* fault: the head pose of the record is not stored
MergeHeadPoseStale(p, cur) == cur

\* case ACTION_EVENT: other_headPose = packet.headPose
MergeHeadPose(p, cur) == p.headPose

\* ----------------------------------------------------------- broadcast
\* fault: the one-shot fields are reset before they are copied
OutPacketAfterReset(att, dmg, dn, pose) ==
    [packet_type |-> ACTION_EVENT, attack |-> Sentinel, damage |-> Sentinel,
     done |-> dn, headPose |-> pose]

\* the packet sendActionPackets builds from the outgoing fields
OutPacket(att, dmg, dn, pose) ==
    [packet_type |-> ACTION_EVENT, attack |-> att, damage |-> dmg,
     done |-> dn, headPose |-> pose]

\* fault: the session whose record is being answered is left out
BroadcastToOthers(box, table, att, dmg, dn, pose) ==
    [s \in table |->
        IF s = iter
        THEN box[s]
        ELSE Append(box[s], serialize(OutPacket(att, dmg, dn, pose)))]

\* fault: the packet is serialized again for every session after the first,
\* when my_attack and my_damage are already reset
BroadcastPerSession(box, table, att, dmg, dn, pose) ==
    [s \in table |->
        Append(box[s],
               IF s = Min(table)
               THEN serialize([packet_type |-> ACTION_EVENT, attack |-> att,
                               damage |-> dmg, done |-> dn, headPose |-> pose])
               ELSE serialize([packet_type |-> ACTION_EVENT,
                               attack |-> Sentinel, damage |-> Sentinel,
                               done |-> dn, headPose |-> pose]))]

\* sendActionPackets: one packet, serialized once into packet_data, and
\* that buffer handed to sendToAll
Broadcast(box, table, att, dmg, dn, pose) ==
    SendToAll(box, table, serialize(OutPacket(att, dmg, dn, pose)))

\* ------------------------------------------------------- loop control
\* the end of the session loop: receiveFromClients returns, its locals die
\* (and with them the offsets read in the last buffer)
Return ==
    /\ pc' = "post"
    /\ iter' = 0 /\ data_length' = 0 /\ i' = 0
    /\ packet' = NoPacket

\* fault: break instead of continue after a receive of nothing
NextSessionBreak == Return

\* continue / iter++ of the session loop after a receive of nothing
NextSession ==
    LET rest == {s \in sessions : s > iter} IN
    IF rest = {}
    THEN Return
    ELSE /\ pc' = "recv"
         /\ iter' = Min(rest)
         /\ UNCHANGED <<data_length, i, packet>>

\* the test of while (i < data_length) after one record has been handled;
\* idx is the value of i after i += sizeof(Packet).  The local packet is
\* dead from here on (the next deserialize overwrites every field of it
\* before any read), so the model forgets its value.
LoopBack(idx) ==
    IF idx < data_length
    THEN /\ pc' = "walk"
         /\ i' = idx /\ packet' = NoPacket
         /\ UNCHANGED <<iter, data_length>>
    ELSE LET rest == {s \in sessions : s > iter} IN
         IF rest = {}
         THEN Return
         ELSE /\ pc' = "recv"
              /\ iter' = Min(rest)
              /\ i' = idx /\ packet' = NoPacket
              /\ UNCHANGED data_length

\* ------------------------------------------------------------- actions
\* ServerGame::update up to the first receiveData: the accept poll, then
\* the start of the session loop
UpdateFrom(pendings) ==
    /\ pc = "idle"
    /\ \E pending \in pendings :
          /\ pending => client_id < MaxClients
          /\ sessions' = AcceptNewClient(sessions, client_id, pending)
          /\ client_id' = NextClientId(client_id, pending)
    /\ outbox' = [s \in sessions' |-> <<>>]
    /\ nProc' = 0 /\ initOnly' = TRUE /\ nSent' = 0
    /\ polled' = <<>> /\ decodedAt' = <<>>
    /\ acceptedNow' = sessions' \ sessions
    /\ LET table == PolledTable(sessions, sessions') IN
       IF table = {}
       THEN pc' = "post" /\ iter' = 0
       ELSE pc' = "recv" /\ iter' = Min(table)
    /\ UNCHANGED <<data_length, i, packet>>
    /\ UNCHANGED <<myVars, otherVars, game_mode, playerMode, seenVars,
                   unsentVars, lastTo>>

\* update() of a host whose listener may have a connection pending
Update == UpdateFrom(BOOLEAN) /\ UNCHANGED gameVars

\* network->receiveData(iter->first, network_data) and the test of its
\* result
ReceiveDataFrom(lengths) ==
    /\ pc = "recv"
    /\ \E len \in lengths :
          /\ sessions' = SessionsAfterReceive(sessions, iter, len)
          /\ IF len <= 0
             THEN /\ NextSession
             ELSE /\ data_length' = len
                  /\ i' = 0
                  /\ pc' = "walk"
                  /\ UNCHANGED <<iter, packet>>
    /\ polled' = Append(polled, iter)
    /\ decodedAt' = <<>>
    /\ UNCHANGED <<client_id, myVars, otherVars, game_mode, playerMode,
                   outbox, nProc, initOnly, nSent, seenVars, unsentVars,
                   lastTo, acceptedNow>>

\* receiveData with every result the socket can give
ReceiveData == ReceiveDataFrom(Lengths) /\ UNCHANGED gameVars

\* one pass of the while loop up to the call of sendActionPackets:
\* deserialize, i += sizeof(Packet), the switch and the merge
ProcessRecordFrom(records) ==
    /\ pc = "walk"
    /\ \E data \in records :
          LET p == deserialize(data)
              idx == NextIndex(i)
          IN  /\ IF Merges(p)
                 THEN /\ other_attack' = MergeAttack(p, other_attack)
                      /\ game_mode' = MergeGameMode(p, game_mode)
                      /\ other_damage' = MergeDamage(p, other_damage)
                      /\ other_done' = MergeDone(p, other_done)
                      /\ other_headPose' = MergeHeadPose(p, other_headPose)
                 ELSE UNCHANGED <<otherVars, game_mode>>
              /\ IF CallsSend(p)
                 THEN /\ pc' = "send"
                      /\ i' = idx /\ packet' = p
                      /\ UNCHANGED <<iter, data_length>>
                 ELSE LoopBack(idx)
              /\ nProc' = IF p.packet_type \in {INIT_CONNECTION, ACTION_EVENT}
                          THEN nProc + 1 ELSE nProc
              /\ initOnly' = (initOnly /\ p.packet_type # ACTION_EVENT)
              /\ IF p.packet_type = ACTION_EVENT
                 THEN /\ seenAttack' = IF p.attack # Sentinel
                                       THEN p.attack ELSE seenAttack
                      /\ seenDamage' = IF p.damage # Sentinel
                                       THEN p.damage ELSE seenDamage
                      /\ seenAttackFirst' = IF p.attack[1] # -1
                                            THEN p.attack ELSE seenAttackFirst
                      /\ seenDamageFirst' = IF p.damage[1] # -1
                                            THEN p.damage ELSE seenDamageFirst
                 ELSE UNCHANGED seenVars
              /\ decodedAt' = IF pc' = "post"
                              THEN <<>>
                              ELSE Append(decodedAt, ReadOffset(i))
    /\ UNCHANGED <<netVars, myVars, playerMode, outbox, nSent, polled,
                   unsentVars, lastTo, acceptedNow>>

\* ServerGame::sendActionPackets, then the break and the loop test
SendActionPackets ==
    /\ pc = "send"
    /\ outbox' = Broadcast(outbox, sessions, my_attack, my_damage, my_done,
                           my_headPose)
    /\ my_attack' = ResetOneShot(my_attack)
    /\ my_damage' = ResetOneShot(my_damage)
    /\ nSent' = nSent + 1
    /\ attackUnsent' = FALSE
    /\ damageUnsent' = FALSE
    /\ lastTo' = sessions
    /\ LoopBack(i)
    /\ decodedAt' = IF pc' = "post" THEN <<>> ELSE decodedAt
    /\ UNCHANGED <<netVars, my_done, my_headPose, otherVars, game_mode,
                   playerMode, nProc, initOnly, seenVars, polled, acceptedNow,
                   gameVars>>

\* ExampleApp::renderScene after server->update(): the game logic consumes
\* the incoming fields.  marked stands for myBoard[..][..] == MARKED and
\* HeadPose for the tracked head pose of this frame.  The frame ends here,
\* and with it the record of what its tick sent.
RenderSceneFrom(markings, poses) ==
    /\ pc = "post"
    /\ \E marked \in markings, HeadPose \in poses :
          /\ IF other_attack[1] # -1 /\ marked
             THEN /\ my_damage' = other_attack
                  /\ other_attack' = Sentinel
                  /\ seenAttack' = Sentinel /\ seenAttackFirst' = Sentinel
                  /\ damageUnsent' = TRUE
             ELSE UNCHANGED <<my_damage, other_attack, seenAttack,
                              seenAttackFirst, damageUnsent>>
          /\ IF other_damage[1] # -1
             THEN /\ other_damage' = <<-1, other_damage[2]>>
                  /\ seenDamage' = other_damage'
                  /\ seenDamageFirst' = other_damage'
             ELSE UNCHANGED <<other_damage, seenDamage, seenDamageFirst>>
          /\ playerMode' = IF game_mode THEN "MY" ELSE playerMode
          /\ my_headPose' = HeadPose
    /\ pc' = "idle"
    /\ outbox' = [s \in sessions |-> <<>>]
    /\ nProc' = 0 /\ initOnly' = TRUE /\ nSent' = 0
    /\ polled' = <<>> /\ acceptedNow' = {}
    /\ UNCHANGED <<netVars, my_attack, my_done, other_done, other_headPose,
                   game_mode, walkVars, decodedAt, attackUnsent, lastTo>>

\* the end of the frame on any state of the attacked cell
RenderScene == RenderSceneFrom(BOOLEAN, Poses) /\ UNCHANGED gameVars

\* fault: the button handlers run on a thread of their own
ButtonsRunAnytime(p) == TRUE

\* where the frame thread is when a button handler runs: renderScene calls
\* the handlers itself, before it calls server->update()
ButtonsRun(p) == p = "idle"

\* ExampleApp::UpdateButtonX when the placement is complete: what it
\* writes into the server
UpdateButtonXServer ==
    /\ ButtonsRun(pc)
    /\ my_done' = TRUE
    /\ UNCHANGED <<netVars, my_attack, my_damage, my_headPose, otherVars,
                   game_mode, playerMode, pc, walkVars, histVars, seenVars,
                   polled, decodedAt, unsentVars, lastTo, acceptedNow>>

\* the X button at any point of the game
UpdateButtonX == UpdateButtonXServer /\ UNCHANGED gameVars

\* ExampleApp::UpdateButtonY on a free cell of the rival board: what it
\* writes into the server and into playerMode
UpdateButtonYServer(free) ==
    /\ ButtonsRun(pc)
    /\ playerMode = "MY"
    /\ \E cell \in free : my_attack' = cell
    /\ playerMode' = "RIVAL"
    /\ game_mode' = FALSE
    /\ attackUnsent' = TRUE
    /\ UNCHANGED <<netVars, my_damage, my_done, my_headPose, otherVars, pc,
                   walkVars, histVars, seenVars, polled, decodedAt,
                   damageUnsent, lastTo, acceptedNow>>

\* the Y button at any point of the game, on any cell
UpdateButtonY == UpdateButtonYServer(Cells) /\ UNCHANGED gameVars

\* the loop pass on the records the sessions of the full engine send
ProcessRecord == ProcessRecordFrom(Records) /\ UNCHANGED gameVars

Next ==
    \/ Update
    \/ ReceiveData
    \/ ProcessRecord
    \/ SendActionPackets
    \/ RenderScene
    \/ UpdateButtonX
    \/ UpdateButtonY

Spec == Init /\ [][Next]_vars

\* a step of server->update() past the accept poll
TickStep == ReceiveData \/ ProcessRecord \/ SendActionPackets

\* the frames of a host whose buttons are not pressed: the course of a
\* tick reads none of the fields the button handlers write
NextLive == Update \/ TickStep \/ RenderScene

\* the frame thread keeps running: a call of update() in progress is not
\* left standing (receiveData and sendToAll return at once)
SpecLive == Init /\ [][NextLive]_vars /\ WF_vars(TickStep)

\* ---------------------------------------------------------------------
\* The merge of one receive buffer from every state the incoming fields can
\* be left in, on every record content: one session is registered and
\* receiveFromClients is about to poll it.

\* values the game logic and earlier merges leave in other_damage: a cell,
\* the sentinel, or a cell whose first component renderScene has reset
LeftDamage == Cells \cup {Sentinel} \cup {<<-1, c[2]>> : c \in Cells}

InitMerge ==
    /\ client_id = 1
    /\ sessions = {0}
    /\ my_attack = Sentinel /\ my_damage = Sentinel
    /\ my_headPose = IdentityPose /\ my_done = FALSE
    /\ other_attack \in Cells \cup {Sentinel}
    /\ other_damage \in LeftDamage
    /\ other_headPose \in Poses
    /\ other_done \in BOOLEAN
    /\ game_mode \in BOOLEAN
    /\ playerMode = IF game_mode THEN "MY" ELSE "RIVAL"
    /\ pc = "recv"
    /\ iter = 0 /\ data_length = 0 /\ i = 0
    /\ packet = NoPacket
    /\ outbox = [s \in {0} |-> <<>>]
    /\ nProc = 0 /\ initOnly = TRUE /\ nSent = 0
    /\ seenAttack = other_attack /\ seenAttackFirst = other_attack
    /\ seenDamage = other_damage /\ seenDamageFirst = other_damage
    /\ polled = <<>> /\ decodedAt = <<>>
    /\ attackUnsent = FALSE /\ damageUnsent = FALSE
    /\ lastTo = {}
    /\ acceptedNow = {}
    /\ InitScene

\* the loop pass on any record content
ProcessAnyRecord == ProcessRecordFrom(AllRecords) /\ UNCHANGED gameVars

NextMerge ==
    \/ ReceiveData
    \/ ProcessAnyRecord
    \/ SendActionPackets

SpecMerge == InitMerge /\ [][NextMerge]_vars

\* ------------------------------------------------ the codec on its own
\* Packet::serialize followed by Packet::deserialize of the same bytes, for
\* every Packet: packet is the struct that is encoded, outbox[0] the byte
\* buffer, and the decode writes the struct again.
InitCodec ==
    /\ client_id = 1 /\ sessions = {0}
    /\ my_attack = Sentinel /\ my_damage = Sentinel
    /\ my_done = FALSE /\ my_headPose = IdentityPose
    /\ other_attack = Sentinel /\ other_damage = Sentinel
    /\ other_done = FALSE /\ other_headPose = IdentityPose
    /\ game_mode = TRUE /\ playerMode = "MY"
    /\ pc = "enc"
    /\ iter = 0 /\ data_length = 0 /\ i = 0
    /\ packet \in Packets
    /\ outbox = [s \in {0} |-> <<>>]
    /\ nProc = 0 /\ initOnly = TRUE /\ nSent = 0
    /\ seenAttack = Sentinel /\ seenAttackFirst = Sentinel
    /\ seenDamage = Sentinel /\ seenDamageFirst = Sentinel
    /\ polled = <<>> /\ decodedAt = <<>>
    /\ attackUnsent = FALSE /\ damageUnsent = FALSE
    /\ lastTo = {}
    /\ acceptedNow = {}
    /\ InitScene

\* what the codec leaves alone
codecFrame == <<netVars, myVars, otherVars, game_mode, playerMode, iter,
                data_length, i, nProc, initOnly, nSent, seenVars, polled,
                decodedAt, unsentVars, lastTo, acceptedNow, gameVars>>

\* packet.serialize(packet_data)
Serialize ==
    /\ pc = "enc"
    /\ outbox' = [outbox EXCEPT ![0] = <<serialize(packet)>>]
    /\ pc' = "dec"
    /\ UNCHANGED <<packet, codecFrame>>

\* packet.deserialize(packet_data)
Deserialize ==
    /\ pc = "dec"
    /\ packet' = deserialize(outbox[0][1])
    /\ pc' = "done"
    /\ UNCHANGED <<outbox, codecFrame>>

NextCodec == Serialize \/ Deserialize

SpecCodec == InitCodec /\ [][NextCodec]_vars

\* ---------------------------------------------- the game of the host
\* The frames of a host whose peer is connected: renderScene with its game
\* logic on the boards, around the tick of the server.  The peer sends
\* well-formed ActionEvents only.

\* everything but the game and playerMode
hostVars == <<netVars, myVars, otherVars, game_mode, pc, walkVars, histVars,
              seenVars, polled, decodedAt, unsentVars, lastTo, acceptedNow>>

\* ActionEvents of a peer: attack and damage are a cell or the sentinel
GameRecords == {<<ACTION_EVENT, a, d, dn, IdentityPose>> :
                   a \in Cells \cup {Sentinel},
                   d \in Cells \cup {Sentinel},
                   dn \in BOOLEAN}

\* a receive of nothing, of one record or of two
GameLengths == {0, PacketSize, 2 * PacketSize}

InitGame ==
    /\ client_id = 1
    /\ sessions = {0}
    /\ my_attack = Sentinel /\ other_attack = Sentinel
    /\ my_damage = Sentinel /\ other_damage = Sentinel
    /\ my_headPose = IdentityPose /\ other_headPose = IdentityPose
    /\ game_mode = TRUE
    /\ my_done = FALSE /\ other_done = FALSE
    /\ playerMode = "MY"
    /\ pc = "idle"
    /\ iter = 0 /\ data_length = 0 /\ i = 0
    /\ packet = NoPacket
    /\ outbox = [s \in {0} |-> <<>>]
    /\ nProc = 0 /\ initOnly = TRUE /\ nSent = 0
    /\ seenAttack = Sentinel /\ seenAttackFirst = Sentinel
    /\ seenDamage = Sentinel /\ seenDamageFirst = Sentinel
    /\ polled = <<>> /\ decodedAt = <<>>
    /\ attackUnsent = FALSE /\ damageUnsent = FALSE
    /\ lastTo = {}
    /\ acceptedNow = {}
    /\ InitScene

\* the head of renderScene: the end of the game on the sixteenth hit or
\* damage, the start of the game when both sides are done
FrameHead ==
    /\ pc = "idle" /\ stage = "head"
    /\ LET won == IF numHits = ShipCells THEN "END" ELSE gameMode
           lost == IF numDamages = ShipCells THEN "END" ELSE won
       IN  /\ numHits' = IF numHits = ShipCells THEN 0 ELSE numHits
           /\ numDamages' = IF numDamages = ShipCells THEN 0 ELSE numDamages
           /\ gameMode' = IF other_done /\ my_done /\ lost = "PREPARE"
                          THEN "ON" ELSE lost
    /\ stage' = "blocks"
    /\ UNCHANGED <<hostVars, playerMode, selectingMode, myBoard, rivalBoard,
                   attackFresh, turnOwed>>

\* the X button in the PREPARE block with all five ships placed; ships are
\* the cells of Cells the fleet covers
UpdateButtonXGame ==
    /\ stage = "blocks"
    /\ gameMode = "PREPARE" /\ selectingMode = "SELECTING"
    /\ UpdateButtonXServer
    /\ selectingMode' = "DONE"
    /\ \E ships \in SUBSET Cells :
          myBoard' = [c \in Cells |-> IF c \in ships THEN MARKED
                                                    ELSE myBoard[c]]
    /\ stage' = "tick"
    /\ UNCHANGED <<gameMode, rivalBoard, numHits, numDamages, attackFresh,
                   turnOwed>>

\* the Y button in the ON block, the cursor on a cell of Cells
UpdateButtonYGame ==
    /\ stage = "blocks"
    /\ gameMode = "ON"
    /\ UpdateButtonYServer({c \in Cells : rivalBoard[c] = EMPTY})
    /\ rivalBoard' = [rivalBoard EXCEPT ![my_attack'] = MISSED]
    /\ turnOwed' = TRUE
    /\ stage' = "tick"
    /\ UNCHANGED <<gameMode, selectingMode, myBoard, numHits, numDamages,
                   attackFresh>>

\* the END block with the right hand at the sculpture: scene->reset() and
\* the modes of a new game
Restart ==
    /\ pc = "idle" /\ stage = "blocks"
    /\ gameMode = "END"
    /\ myBoard' = [c \in Cells |-> EMPTY]
    /\ rivalBoard' = [c \in Cells |-> EMPTY]
    /\ numHits' = 0 /\ numDamages' = 0
    /\ gameMode' = "PREPARE"
    /\ playerMode' = "MY"
    /\ selectingMode' = "SELECTING"
    /\ turnOwed' = FALSE
    /\ stage' = "tick"
    /\ UNCHANGED <<hostVars, attackFresh>>

\* server->update() of the frame; no further connection is pending
UpdateGame ==
    /\ stage \in {"blocks", "tick"}
    /\ UpdateFrom({FALSE})
    /\ stage' = "tick"
    /\ attackFresh' = FALSE
    /\ UNCHANGED <<gameMode, selectingMode, myBoard, rivalBoard, numHits,
                   numDamages, turnOwed>>

ReceiveDataGame == ReceiveDataFrom(GameLengths) /\ UNCHANGED gameVars

\* the loop pass on a record of the peer
ProcessRecordGame ==
    /\ ProcessRecordFrom(GameRecords)
    /\ attackFresh' = (attackFresh \/ packet'.attack[1] # -1)
    /\ turnOwed' = (turnOwed /\ packet'.attack[1] = -1)
    /\ UNCHANGED <<gameMode, selectingMode, myBoard, rivalBoard, numHits,
                   numDamages, stage>>

\* renderScene after server->update() on the boards of the scene
RenderSceneGame ==
    /\ RenderSceneFrom(IF other_attack[1] # -1
                       THEN {myBoard[other_attack] = MARKED}
                       ELSE {FALSE},
                       {IdentityPose})
    /\ IF other_attack[1] # -1
       THEN IF myBoard[other_attack] = MARKED
            THEN /\ myBoard' = [myBoard EXCEPT ![other_attack] = SHOOTED]
                 /\ numDamages' = numDamages + 1
            ELSE /\ myBoard' = [myBoard EXCEPT ![other_attack] = MISSED]
                 /\ UNCHANGED numDamages
       ELSE UNCHANGED <<myBoard, numDamages>>
    /\ IF other_damage[1] # -1
       THEN /\ rivalBoard' = [rivalBoard EXCEPT ![other_damage] = SHOOTED]
            /\ numHits' = numHits + 1
       ELSE UNCHANGED <<rivalBoard, numHits>>
    /\ stage' = "head"
    /\ UNCHANGED <<gameMode, selectingMode, attackFresh, turnOwed>>

NextGame ==
    \/ FrameHead
    \/ UpdateButtonXGame
    \/ UpdateButtonYGame
    \/ Restart
    \/ UpdateGame
    \/ ReceiveDataGame
    \/ ProcessRecordGame
    \/ SendActionPackets
    \/ RenderSceneGame

SpecGame == InitGame /\ [][NextGame]_vars

\* ---------------------------------------------------------------------
\* Properties

\* the record p has been merged into the incoming fields
RecordMerged(p) ==
    p.packet_type = ACTION_EVENT =>
        /\ other_done = p.done
        /\ other_headPose = p.headPose
        /\ p.attack[1] # -1 => (other_attack = p.attack /\ game_mode)
        /\ p.damage[1] # -1 => other_damage = p.damage

\* C1 as stated: when a broadcast is sent, no later record of the same
\* receive buffer is still waiting to be decoded and merged.
C1_BufferMergedBeforeBroadcast ==
    pc = "send" => ~(i < data_length)

\* C1 amended: when a broadcast is sent, the record that triggered it has
\* been decoded and merged; later records of the same buffer may still be
\* unmerged.
C1_RecordMergedBeforeItsBroadcast ==
    pc = "send" => (CallsSend(packet) /\ RecordMerged(packet))

\* C1 witness: a broadcast is about to be sent for a merged ActionEvent
\* while a later record of the same buffer waits.
C1_Witness ==
    /\ pc = "send" /\ i < data_length
    /\ packet.packet_type = ACTION_EVENT
    /\ packet.attack = <<3, 4>> /\ other_attack = <<3, 4>>

\* C2: in every tick the number of sendActionPackets calls equals the
\* number of Init and ActionEvent records processed, the broadcast of the
\* record in hand being the only one outstanding.
C2_OneBroadcastPerRecord ==
    nProc = nSent + (IF pc = "send" THEN 1 ELSE 0)

\* C2 witness: a tick that processed at least three records has ended.
C2_Witness ==
    pc = "post" /\ nProc >= 3 /\ nSent = nProc

\* C3: with two sessions registered, a tick whose only processed record is
\* one Init ends with exactly one broadcast, delivered to both sessions
\* with the same bytes.
C3_InitHandshake ==
    (Cardinality(sessions) = 2 /\ nProc = 1 /\ initOnly /\ pc # "send") =>
        /\ nSent = 1
        /\ \A s \in sessions : Len(outbox[s]) = 1
        /\ \A s, t \in sessions : outbox[s] = outbox[t]

\* C3 witness: such a tick has ended, and the broadcast carried an attack.
C3_Witness ==
    /\ pc = "post" /\ sessions = {0, 1}
    /\ nProc = 1 /\ initOnly /\ nSent = 1
    /\ Len(outbox[0]) = 1 /\ outbox[0] = outbox[1]
    /\ deserialize(outbox[1][1]).attack \in Cells

\* C4: processing an Init record leaves other_attack, other_damage,
\* other_done, other_headPose and game_mode unchanged.
C4_InitMergesNothing ==
    [][(pc = "walk" /\ packet'.packet_type = INIT_CONNECTION /\ pc' = "send")
         => UNCHANGED <<other_attack, other_damage, other_done,
                        other_headPose, game_mode>>]_vars

\* C4 witness: an Init record that carries values differing from the
\* incoming fields has been processed.
C4_Witness ==
    /\ pc = "send" /\ packet.packet_type = INIT_CONNECTION
    /\ packet.attack \in Cells /\ packet.attack # other_attack
    /\ packet.damage \in Cells /\ packet.damage # other_damage
    /\ packet.done # other_done /\ packet.headPose # other_headPose
    /\ ~game_mode

\* C5 as stated: an ActionEvent whose attack differs from (-1,-1) in at
\* least one component sets other_attack to it and game_mode to true.
C5_NonSentinelAttackMerged ==
    [][(pc = "walk" /\ packet'.packet_type = ACTION_EVENT
          /\ packet'.attack # Sentinel)
         => (other_attack' = packet'.attack /\ game_mode' = TRUE)]_vars

\* C5 amended: an ActionEvent whose attack has a first component other
\* than -1 sets other_attack to it and game_mode to true.
C5_AttackFirstMerged ==
    [][(pc = "walk" /\ packet'.packet_type = ACTION_EVENT
          /\ packet'.attack[1] # -1)
         => (other_attack' = packet'.attack /\ game_mode' = TRUE)]_vars

\* C5 witness: the ActionEvent with attack (3,4) has been merged.
C5_Witness ==
    /\ pc = "send" /\ packet.packet_type = ACTION_EVENT
    /\ packet.attack = <<3, 4>> /\ packet.damage # packet.attack
    /\ other_attack = <<3, 4>> /\ game_mode

\* C6: an ActionEvent whose attack is (-1,-1) changes neither other_attack
\* nor game_mode.
C6_SentinelAttackKeeps ==
    [][(pc = "walk" /\ packet'.packet_type = ACTION_EVENT
          /\ packet'.attack = Sentinel)
         => UNCHANGED <<other_attack, game_mode>>]_vars

\* C6 witness: such a record, carrying a damage, has been merged while an
\* attack was pending and game_mode was false.
C6_Witness ==
    /\ pc = "send" /\ packet.packet_type = ACTION_EVENT
    /\ packet.attack = Sentinel /\ packet.damage \in Cells
    /\ other_attack \in Cells /\ ~game_mode

\* C7 as stated: an ActionEvent sets other_damage to its damage exactly
\* when the damage is not (-1,-1), and otherwise leaves it unchanged.
C7_NonSentinelDamageMerged ==
    [][(pc = "walk" /\ packet'.packet_type = ACTION_EVENT)
         => other_damage' = IF packet'.damage # Sentinel
                            THEN packet'.damage ELSE other_damage]_vars

\* C7 amended: an ActionEvent sets other_damage to its damage exactly when
\* the first component of the damage is not -1 and otherwise leaves it
\* unchanged; game_mode and other_attack change only for an attack whose
\* first component is not -1.
C7_DamageFirstMerged ==
    [][(pc = "walk" /\ packet'.packet_type = ACTION_EVENT)
         => /\ other_damage' = IF packet'.damage[1] # -1
                               THEN packet'.damage ELSE other_damage
            /\ packet'.attack[1] = -1
                  => UNCHANGED <<other_attack, game_mode>>
            /\ other_attack' \in {other_attack, packet'.attack}]_vars

\* C7 witness: a record with a damage cell and no attack has been merged,
\* game_mode still false and the pending attack untouched.
C7_Witness ==
    /\ pc = "send" /\ packet.packet_type = ACTION_EVENT
    /\ packet.damage = <<0, 9>> /\ other_damage = <<0, 9>>
    /\ packet.attack = Sentinel /\ other_attack = <<3, 4>> /\ ~game_mode

\* C8: every merged ActionEvent overwrites other_done and other_headPose
\* with the values of the record.
C8_DoneAndPoseLatestWins ==
    [][(pc = "walk" /\ packet'.packet_type = ACTION_EVENT)
         => (other_done' = packet'.done
             /\ other_headPose' = packet'.headPose)]_vars

\* C8 witness: the second ActionEvent of a buffer, with sentinel attack and
\* damage, has been merged and lowered other_done.
C8_Witness ==
    /\ pc = "send" /\ packet.packet_type = ACTION_EVENT
    /\ i = 2 * PacketSize /\ nProc = 2 /\ ~initOnly
    /\ packet.attack = Sentinel /\ packet.damage = Sentinel
    /\ ~packet.done /\ ~other_done
    /\ packet.headPose = IdentityPose /\ other_headPose = IdentityPose

\* C9 as stated: other_attack is the attack of the last merged ActionEvent
\* whose attack is not (-1,-1) since the last write of the game logic, and
\* other_damage likewise.
C9_LatestNonSentinelWins ==
    other_attack = seenAttack /\ other_damage = seenDamage

\* C9 amended: other_attack is the attack of the last merged ActionEvent
\* whose attack has a first component other than -1 since the last write of
\* the game logic, and other_damage likewise.
C9_LatestFirstWins ==
    other_attack = seenAttackFirst /\ other_damage = seenDamageFirst

\* C9 witness: in the buffer of the second session, a record without attack
\* is merged after an attack of an earlier record.
C9_Witness ==
    /\ pc = "send" /\ iter = 1 /\ packet.packet_type = ACTION_EVENT
    /\ packet.attack = Sentinel /\ other_attack = <<0, 9>>
    /\ packet.damage = <<3, 4>> /\ other_damage = <<3, 4>>

\* C10: every broadcast delivers to each session a record that decodes to
\* an ActionEvent carrying my_attack, my_damage, my_done and my_headPose as
\* they were when sendActionPackets was called.
C10_BroadcastCarriesOutgoing ==
    [][pc = "send" =>
         \A s \in sessions :
            LET q == deserialize(Last(outbox'[s])) IN
            /\ Len(outbox'[s]) = Len(outbox[s]) + 1
            /\ q.packet_type = ACTION_EVENT
            /\ q.attack = my_attack /\ q.damage = my_damage
            /\ q.done = my_done /\ q.headPose = my_headPose]_vars

\* C10 witness: a broadcast carrying an attack, a damage, done and a head
\* pose has been delivered, and the one-shot fields are reset.
C10_Witness ==
    /\ nSent = 1 /\ sessions = {0, 1}
    /\ deserialize(outbox[1][1]).attack \in Cells
    /\ deserialize(outbox[1][1]).damage \in Cells
    /\ deserialize(outbox[1][1]).done
    /\ deserialize(outbox[1][1]).headPose = "P"
    /\ my_attack = Sentinel /\ my_damage = Sentinel

\* C11: a broadcast leaves my_attack and my_damage at the sentinel and
\* changes none of my_headPose, my_done, other_attack, other_damage,
\* other_done, other_headPose and the turn flag game_mode.
C11_BroadcastResetsOneShot ==
    [][pc = "send" =>
         /\ my_attack' = Sentinel /\ my_damage' = Sentinel
         /\ UNCHANGED <<my_headPose, my_done, otherVars, game_mode>>]_vars

\* C11 witness: a broadcast that carried an attack and a damage has been
\* sent; both are reset while done, the head pose, the merged peer fields
\* and the turn flag stand.
C11_Witness ==
    /\ nSent >= 1 /\ 0 \in sessions
    /\ deserialize(Last(outbox[0])).attack \in Cells
    /\ deserialize(Last(outbox[0])).damage \in Cells
    /\ my_attack = Sentinel /\ my_damage = Sentinel
    /\ my_done /\ my_headPose = "P"
    /\ other_attack \in Cells /\ other_done /\ game_mode

\* C12: a non-sentinel my_attack (my_damage) is always a write of the game
\* logic that no broadcast has carried yet: the broadcast that carries it
\* resets it, so one write is carried by at most one broadcast and every
\* later broadcast carries the sentinel until the game logic writes again.
C12_OneShotDelivery ==
    /\ my_attack # Sentinel => attackUnsent
    /\ my_damage # Sentinel => damageUnsent

\* C12 witness: a second broadcast of the tick follows one that carried an
\* attack written by UpdateButtonY; the attack is the sentinel again and
\* nothing has been written since.
C12_Witness ==
    /\ nSent = 1 /\ pc = "send" /\ 0 \in sessions
    /\ deserialize(outbox[0][1]).attack \in Cells
    /\ my_attack = Sentinel /\ ~attackUnsent

\* C13: a broadcast is one byte sequence handed to exactly the sessions
\* registered when sendToAll is called; nothing else delivers, the table
\* does not change inside a tick, and a session accepted later starts with
\* nothing received and is not among the receivers of the last broadcast.
C13_SnapshotDelivery ==
    [][/\ pc = "send" =>
            /\ DOMAIN outbox' = sessions /\ lastTo' = sessions
            /\ \A s \in sessions : Len(outbox'[s]) = Len(outbox[s]) + 1
            /\ \A s \in sessions :
                  /\ Last(outbox'[s]) = Last(outbox'[iter])
                  /\ SubSeq(outbox'[s], 1, Len(outbox[s])) = outbox[s]
       /\ pc \in {"recv", "walk"} => outbox' = outbox /\ lastTo' = lastTo
       /\ pc # "idle" => sessions' = sessions
       /\ sessions' # sessions =>
            /\ lastTo' = lastTo
            /\ \A u \in sessions' \ sessions :
                  u \notin lastTo' /\ outbox'[u] = <<>>]_vars

\* C13 witness: session 1 was accepted after the last broadcast, which went
\* to session 0 alone.
C13_Witness ==
    /\ sessions = {0, 1} /\ lastTo = {0}
    /\ pc = "recv" /\ iter = 0 /\ outbox[1] = <<>>

\* C14: session ids are handed out from 0 upwards, one per accept, and are
\* never reused: after k accepts the registered ids are exactly 0 .. k-1
\* and the next id is k (client_id).
C14_SessionIdsDense ==
    /\ sessions = 0 .. (client_id - 1)
    /\ Cardinality(sessions) = client_id

\* C14 witness: two accepts have succeeded.
C14_Witness ==
    /\ client_id = 2 /\ sessions = {0, 1} /\ pc = "idle"

\* the session loop has called receiveData once for every registered
\* session
AllPolled ==
    /\ Len(polled) = Cardinality(sessions)
    /\ {polled[j] : j \in 1 .. Len(polled)} = sessions

\* C15: a tick whose accept poll registers nobody leaves client_id and the
\* session table as they were and still polls every existing session, and
\* every tick starts with an accept poll that can succeed.
C15_FailedAcceptKeepsTick ==
    /\ [][(pc = "idle" /\ pc' # "idle" /\ sessions' = sessions) =>
             /\ client_id' = client_id
             /\ polled' = <<>>
             /\ IF sessions = {}
                THEN pc' = "post"
                ELSE pc' = "recv" /\ iter' = Min(sessions)]_vars
    /\ [](pc = "post" => AllPolled)
    /\ []((pc = "idle" /\ client_id < MaxClients) =>
             ENABLED (Update /\ sessions' # sessions))

\* C15 witness: the tick that ends here accepted nobody (session 0 had
\* already sent the attack merged in an earlier tick, and no session 1 was
\* registered) and polled session 0.
C15_Witness ==
    /\ pc = "post" /\ sessions = {0} /\ client_id = 1
    /\ polled = <<0>> /\ nProc = 0 /\ other_attack \in Cells

\* C16: no step removes a session: the registered set only grows.
C16_SessionsOnlyGrow ==
    [][sessions \subseteq sessions']_vars

\* C16 witness: both sessions are still registered at the end of a tick in
\* which neither delivered a record.
C16_Witness ==
    /\ sessions = {0, 1} /\ pc = "post"
    /\ polled = <<0, 1>> /\ nProc = 0 /\ lastTo = {0, 1}

\* C17: a receive that returns nothing (length <= 0) changes no field,
\* sends no broadcast, and the loop goes on to the next session of the
\* same tick, so that every session has been polled when the tick ends.
C17_EmptyReceiveSkipsSession ==
    /\ [][(pc = "recv" /\ pc' # "walk") =>
             /\ UNCHANGED <<myVars, otherVars, game_mode, outbox, nSent,
                            lastTo, netVars>>
             /\ polled' = Append(polled, iter)
             /\ LET rest == {s \in sessions : s > iter} IN
                IF rest = {}
                THEN pc' = "post"
                ELSE pc' = "recv" /\ iter' = Min(rest)]_vars
    /\ [](pc = "post" => AllPolled)

\* C17 witness: session 0 returned nothing in this tick, what an earlier
\* tick merged stands, and session 1 is polled next.
C17_Witness ==
    /\ pc = "recv" /\ iter = 1 /\ polled = <<0>>
    /\ data_length = 0 /\ nSent = 0 /\ other_attack \in Cells

\* C18: a record whose type is neither INIT_CONNECTION nor ACTION_EVENT
\* changes no field and sends no broadcast, and the walk goes on with the
\* next record of the buffer, or with the next session when the buffer is
\* used up.
C18_UnknownKindIgnored ==
    [][(pc = "walk" /\ nProc' = nProc) =>
         /\ UNCHANGED <<myVars, otherVars, game_mode, outbox, nSent, lastTo,
                        netVars>>
         /\ pc' # "send"
         /\ IF i + PacketSize < data_length
            THEN /\ pc' = "walk" /\ i' = i + PacketSize
                 /\ UNCHANGED <<iter, data_length, polled>>
            ELSE LET rest == {s \in sessions : s > iter} IN
                 IF rest = {}
                 THEN pc' = "post"
                 ELSE pc' = "recv" /\ iter' = Min(rest)]_vars

\* C18 witness: the first record of a buffer had an unknown type; nothing
\* was counted or sent, what was merged before stands, and the second
\* record is decoded next.
C18_Witness ==
    /\ pc = "walk" /\ i = PacketSize /\ decodedAt = <<0>>
    /\ nProc = 0 /\ nSent = 0 /\ other_attack \in Cells

\* C19 as claimed: of a buffer of data_length bytes exactly the whole
\* records are decoded, data_length \div PacketSize of them; the trailing
\* data_length % PacketSize bytes cause no decode, merge or broadcast.
\* The walk tests i < data_length, so a trailing part of a record is
\* decoded too, with bytes the receive did not deliver.
C19_WholeRecordsOnly ==
    Len(decodedAt) * PacketSize <= data_length

\* C20: the records of a buffer are decoded front to back, each at the
\* offset after the one before; the broadcast that is due answers the
\* record read last; and a buffer of k whole records has had exactly k
\* decodes when the walk leaves it.
C20_RecordsInArrivalOrder ==
    /\ [](\A j \in 1 .. Len(decodedAt) :
             decodedAt[j] = (j - 1) * PacketSize)
    /\ [](pc \in {"walk", "send"} => i = Len(decodedAt) * PacketSize)
    /\ [](pc = "send" => i = Last(decodedAt) + PacketSize)
    /\ [][(/\ pc \in {"walk", "send"} /\ pc' \notin {"walk", "send"}
           /\ data_length % PacketSize = 0) =>
             data_length = PacketSize * (IF pc = "send"
                                        THEN Len(decodedAt)
                                        ELSE Len(decodedAt) + 1)]_vars

\* C20 witness: a buffer of two whole records; the first was decoded at 0
\* and answered, the second was decoded at PacketSize and its broadcast is
\* due.
C20_Witness ==
    /\ pc = "send" /\ data_length = 2 * PacketSize
    /\ decodedAt = <<0, PacketSize>> /\ nSent = 1 /\ nProc = 2

\* C21 as claimed: a record for which fewer than PacketSize bytes were
\* received is discarded: it is not decoded into a Packet and no broadcast
\* is ever due for it.  The walk decodes it all the same (see C19), from
\* bytes past data_length, and answers it when its type is known.
C21_UndersizedRecordDiscarded ==
    /\ decodedAt # <<>> => Last(decodedAt) + PacketSize <= data_length
    /\ pc = "send" => i <= data_length

\* the valid Packets of the wire format: Init or ActionEvent, attack and
\* damage each a cell or the sentinel
ValidPacket(p) ==
    /\ p.packet_type \in {INIT_CONNECTION, ACTION_EVENT}
    /\ p.attack \in Cells \cup {Sentinel}
    /\ p.damage \in Cells \cup {Sentinel}

ValidPair(c) ==
    \/ c = Sentinel
    \/ c[1] \in 0 .. 9 /\ c[2] \in 0 .. 9

\* C23: every packet the server broadcasts carries in attack and in damage
\* a cell of the board or exactly the sentinel (the game logic writes cells
\* only; an inbound pair whose first component is -1 is never merged).
C23_BroadcastPairsValid ==
    \A s \in DOMAIN outbox :
       \A j \in 1 .. Len(outbox[s]) :
          LET q == deserialize(outbox[s][j]) IN
          ValidPair(q.attack) /\ ValidPair(q.damage)

\* C23 witness: two broadcasts of one tick went to both sessions, the first
\* with a fired cell and a hit cell, the second with both pairs reset.
C23_Witness ==
    /\ sessions = {0, 1} /\ nSent = 2 /\ Len(outbox[1]) = 2
    /\ deserialize(outbox[1][1]).attack \in Cells
    /\ deserialize(outbox[1][1]).damage \in Cells
    /\ deserialize(outbox[1][2]).attack = Sentinel
    /\ deserialize(outbox[1][2]).damage = Sentinel

\* C24: the accept poll comes first in a tick: a session registered by it
\* is in the table before any receive or broadcast of the tick, is polled
\* in that tick and is handed every broadcast of that tick.
C24_AcceptBeforePoll ==
    /\ [](acceptedNow \subseteq sessions)
    /\ [][sessions' # sessions =>
             /\ acceptedNow' = sessions' \ sessions
             /\ pc' = "recv" /\ polled' = <<>> /\ nSent' = 0]_vars
    /\ [][pc = "send" =>
             \A u \in acceptedNow :
                Len(outbox'[u]) = Len(outbox[u]) + 1]_vars
    /\ [](pc = "post" =>
             \A u \in acceptedNow :
                /\ \E j \in 1 .. Len(polled) : polled[j] = u
                /\ Len(outbox[u]) = nSent)

\* C24 witness: session 1 was accepted in the tick that ends here; it was
\* polled after session 0 and was handed both broadcasts of the tick.
C24_Witness ==
    /\ pc = "post" /\ acceptedNow = {1}
    /\ polled = <<0, 1>> /\ nSent = 2 /\ Len(outbox[1]) = 2

\* the frame thread is inside receiveFromClients
InTick == pc \in {"recv", "walk", "send"}

\* more than twice the bytes a receive returns, plus the steps of a record
RankBase == 2 * (MaxRecords + 1) * PacketSize + 3

\* what is left of the tick: the sessions not yet done with, then the
\* bytes of the buffer not yet walked
Rank ==
    IF ~InTick
    THEN 0
    ELSE RankBase * Cardinality({s \in sessions : s >= iter})
         + (CASE pc = "recv" -> RankBase - 1
              [] pc = "walk" -> 2 * (data_length - i) + 1
              [] pc = "send" -> 2 * (data_length - i + PacketSize))

\* C25: a call of update() terminates: inside the tick some step is always
\* possible, every step brings the end nearer (the walk index grows by
\* PacketSize per record and stays below data_length while the walk goes
\* on), each session is polled once, and the tick reaches its end.
C25_TickTerminates ==
    /\ [](InTick => Rank > 0 /\ ENABLED TickStep)
    /\ [][InTick => Rank' < Rank]_vars
    /\ [](pc = "walk" => i < data_length)
    /\ [][(pc = "walk" /\ pc' \in {"walk", "send"}) =>
             i' = i + PacketSize]_vars
    /\ [](pc = "post" => AllPolled)
    /\ (InTick ~> pc = "post")

\* C25 witness: the tick has ended after polling both sessions and walking
\* a buffer of two records.
C25_Witness ==
    /\ pc = "post" /\ polled = <<0, 1>> /\ nProc = 2 /\ nSent = 2
    /\ acceptedNow = {}

\* C26: access to the shared fields is serialized: while update() runs no
\* game-logic step is possible, the outgoing fields change only by the
\* reset of a broadcast and the incoming fields and game_mode only by a
\* merge, so nothing comes between a merge and its broadcast or between
\* the building of the packet and the reset.
C26_SerializedAccess ==
    /\ [](InTick => /\ ~ENABLED UpdateButtonX
                    /\ ~ENABLED UpdateButtonY
                    /\ ~ENABLED RenderScene)
    /\ [][InTick =>
             /\ UNCHANGED <<my_done, my_headPose, playerMode>>
             /\ my_attack' # my_attack \/ my_damage' # my_damage
                   => pc = "send"
             /\ otherVars' # otherVars \/ game_mode' # game_mode
                   => pc = "walk"]_vars
    /\ [][pc = "send" =>
             /\ UNCHANGED <<otherVars, game_mode>>
             /\ \A s \in sessions :
                   LET q == deserialize(Last(outbox'[s])) IN
                   q.attack = my_attack /\ q.damage = my_damage]_vars

\* C26 witness: an attack has been merged and its broadcast is due, in a
\* state in which both button handlers would have something to do.
C26_Witness ==
    /\ pc = "send" /\ playerMode = "MY" /\ ~my_done
    /\ packet.packet_type = ACTION_EVENT /\ packet.attack \in Cells
    /\ other_attack = packet.attack /\ nSent = 1

\* C27: only an inbound Init or ActionEvent record triggers a broadcast:
\* as long as a tick has processed none, nothing is sent or due to be
\* sent and my_attack and my_damage keep their values.
C27_BroadcastOnlyOnRecord ==
    /\ [](nProc = 0 =>
             /\ nSent = 0 /\ pc # "send"
             /\ \A s \in DOMAIN outbox : outbox[s] = <<>>)
    /\ [][((InTick \/ (pc = "idle" /\ pc' # "idle")) /\ nProc' = 0) =>
             UNCHANGED <<my_attack, my_damage>>]_vars

\* C27 witness: a tick polled session 0, processed no record and sent
\* nothing; the attack fired before it is still pending.
C27_Witness ==
    /\ pc = "post" /\ polled = <<0>> /\ nProc = 0 /\ nSent = 0
    /\ my_attack \in Cells /\ attackUnsent

\* C28: a broadcast is due only while the session whose record triggered
\* it is registered, and it is handed to that session among the others;
\* with an empty table nothing is sent and no one-shot field is reset.
C28_SenderEchoed ==
    /\ [](pc = "send" => iter \in sessions)
    /\ [](sessions = {} => nSent = 0)
    /\ [][pc = "send" =>
             /\ iter \in DOMAIN outbox'
             /\ Len(outbox'[iter]) = Len(outbox[iter]) + 1
             /\ iter \in lastTo']_vars
    /\ [][(\/ my_attack # Sentinel /\ my_attack' = Sentinel
           \/ my_damage # Sentinel /\ my_damage' = Sentinel) =>
             pc = "send" /\ sessions # {}]_vars

\* C28 witness: the only session sent one record and was handed the
\* broadcast it triggered.
C28_Witness ==
    /\ pc = "post" /\ sessions = {0} /\ nProc = 1 /\ nSent = 1
    /\ Len(outbox[0]) = 1 /\ lastTo = {0}

\* C29: of the broadcasts of one tick only the first can carry an attack
\* or a damage; every later one carries the sentinel in both, and done and
\* headPose are the same in all of them.
C29_FirstBroadcastCarries ==
    \A s \in DOMAIN outbox :
       \A j \in 2 .. Len(outbox[s]) :
          LET q == deserialize(outbox[s][j])
              f == deserialize(outbox[s][1])
          IN  /\ q.attack = Sentinel /\ q.damage = Sentinel
              /\ q.done = f.done /\ q.headPose = f.headPose

\* C29 witness: a tick that began with a pending attack has sent two
\* broadcasts; the first carries the attack, the second the sentinel, both
\* the same done and head pose.
C29_Witness ==
    /\ sessions = {0} /\ nSent = 2 /\ Len(outbox[0]) = 2
    /\ deserialize(outbox[0][1]).attack \in Cells
    /\ deserialize(outbox[0][2]).attack = Sentinel
    /\ deserialize(outbox[0][1]).done /\ deserialize(outbox[0][2]).done
    /\ deserialize(outbox[0][1]).headPose = "P"
    /\ deserialize(outbox[0][2]).headPose = "P"

\* C30: game_mode becomes true only by the merge of an ActionEvent whose
\* attack is not the sentinel, and false only by UpdateButtonY; no step of
\* update(), receiveFromClients() or sendActionPackets() clears it.
C30_TurnFlagWrites ==
    [][game_mode' # game_mode =>
         IF game_mode'
         THEN /\ pc = "walk"
              /\ packet'.packet_type = ACTION_EVENT
              /\ packet'.attack # Sentinel
         ELSE /\ pc = "idle" /\ pc' = "idle"
              /\ my_attack' \in Cells /\ playerMode' = "RIVAL"]_vars

\* C30 witness: UpdateButtonY had cleared the flag (the player mode is
\* still RIVAL) and the merge of an attack has set it again.
C30_Witness ==
    /\ pc = "send" /\ game_mode /\ playerMode = "RIVAL"
    /\ packet.packet_type = ACTION_EVENT /\ packet.attack \in Cells

\* C32: a tick registers at most one session, and client_id is always the
\* number of registered sessions.
C32_CounterCountsSessions ==
    /\ [](client_id = Cardinality(sessions))
    /\ [](Cardinality(acceptedNow) <= 1)
    /\ [][/\ Cardinality(sessions') <= Cardinality(sessions) + 1
          /\ sessions' # sessions => pc = "idle" /\ pc' # "idle"]_vars

\* C32 witness: the accept poll of this tick registered the second session
\* and the counter stands at two.
C32_Witness ==
    /\ acceptedNow = {1} /\ client_id = 2 /\ Cardinality(sessions) = 2
    /\ pc = "recv" /\ iter = 0

\* C33: no step of update() writes anything but the sentinel into an
\* outgoing field: my_done and my_headPose stay, my_attack and my_damage
\* stay or become (-1,-1); what a record carries reaches no my_* field.
C33_UpdateWritesNoOutgoing ==
    [][(InTick \/ (pc = "idle" /\ pc' # "idle")) =>
         /\ UNCHANGED <<my_done, my_headPose>>
         /\ my_attack' \in {my_attack, Sentinel}
         /\ my_damage' \in {my_damage, Sentinel}]_vars

\* C33 witness: an Init record that carries an attack, a damage and done is
\* being answered while another attack is pending and done is not set.
C33_Witness ==
    /\ pc = "send" /\ packet.packet_type = INIT_CONNECTION
    /\ packet.attack \in Cells /\ packet.damage \in Cells /\ packet.done
    /\ my_attack \in Cells /\ my_attack # packet.attack /\ ~my_done

\* an accepted local fire: UpdateButtonY marks a free cell of the rival
\* board MISSED (nothing else writes MISSED there)
Fired == \E c \in Cells : rivalBoard[c] = EMPTY /\ rivalBoard'[c] = MISSED

\* C31: an accepted fire takes the turn away (playerMode RIVAL, game_mode
\* false, my_attack the cell), and until an ActionEvent whose attack passes
\* the merge test is merged the player stays without the turn: no fire of a
\* game is accepted while the previous one of that game is unanswered.
C31_FireAwaitsAttack ==
    /\ [](turnOwed => playerMode = "RIVAL" /\ ~game_mode)
    /\ [][Fired => /\ ~turnOwed
                   /\ playerMode = "MY" /\ playerMode' = "RIVAL"
                   /\ ~game_mode'
                   /\ my_attack' \in Cells
                   /\ rivalBoard'[my_attack'] = MISSED]_vars

\* C31 witness: both cells were fired at in one game, and the second fire
\* is unanswered.
C31_Witness ==
    /\ gameMode = "ON" /\ turnOwed
    /\ \A c \in Cells : rivalBoard[c] = MISSED

\* C34: my_attack, my_damage, other_attack and other_damage are each a grid
\* cell or exactly (-1,-1) in every state of the server with its game
\* logic, the peer sending such pairs only.
C34_PairsValid ==
    /\ ValidPair(my_attack) /\ ValidPair(my_damage)
    /\ ValidPair(other_attack) /\ ValidPair(other_damage)

\* C35: a hit is registered (numDamages incremented) only on an attack the
\* tick of the same frame merged: an other_attack left from an earlier
\* frame or an earlier game registers none.
C35_HitNeedsFreshAttack ==
    [][numDamages' = numDamages + 1 => attackFresh]_vars

\* C36: the game goes from PREPARE to ON only with my_done, other_done and
\* the placement of the current round complete (selectingMode DONE).
C36_StartNeedsPlacement ==
    [][gameMode = "PREPARE" /\ gameMode' = "ON" =>
         my_done /\ other_done /\ selectingMode = "DONE"]_vars

=============================================================================
